---- MODULE Spec2Model ----
(***************************************************************************)
(* DriveAhead backend, website/app_simple.py: the JolpicaAPIClient (HTTP   *)
(* GET with a time-bucketed cache) and the F1DataManager (normalisation,   *)
(* date-based status, static fallback data).                               *)
(*                                                                         *)
(* Representation of Python values:                                        *)
(*   - a str is a sequence of tokens (an endpoint, a cache key, a number   *)
(*     as decimal digits); names are kept as TLA+ strings where the code   *)
(*     only copies them;                                                   *)
(*   - a 'YYYY-MM-DD' str is the triple <<Y, M, D>> of its fields, which   *)
(*     strptime turns into a date (or a ValueError);                       *)
(*   - a dict is a record, a missing key is a missing field;               *)
(*   - the wall clock is `now`, in seconds since the epoch, read by        *)
(*     time.time() and datetime.now() (taken as UTC).                      *)
(***************************************************************************)
EXTENDS Integers, Sequences, FiniteSets, TLC

VARIABLES now, cache, gets, calls, mgr, last, threads

vars == <<now, cache, gets, calls, mgr, last, threads>>

(***************************************************************************)
(* Bounds of the model.                                                    *)
(***************************************************************************)
\* clock advances of TickSeconds after the start instant
MaxTicks == 2
\* direct _make_request calls in one behaviour of the client
MaxCalls == 3
\* records in one remote races list
MaxRaces == 2
\* read calls of the manager in one behaviour
MaxReads == 2

(***************************************************************************)
(* Program and library constants.                                          *)
(***************************************************************************)
\* Config.API_CACHE_TTL, seconds (config.py is not part of the sources)
API_CACHE_TTL == 300
\* Config.get_current_season()
CurrentSeason == 2025
SecondsPerDay == 24 * 60 * 60
\* date(1970, 1, 1).toordinal()
EpochOrdinal == 719163
\* granularity of the modelled clock
TickSeconds == 2 * 60
\* the instants a behaviour may start at: 2025-09-21 23:56:00 UTC and the
\* same time of day on 2025-09-22
StartTimes == {1758498960, 1758498960 + SecondsPerDay}
\* clock advances since the start instant
TickCount(t) ==
    ((t + SecondsPerDay - (23 * 60 + 56) * 60) % SecondsPerDay) \div TickSeconds

(***************************************************************************)
(* datetime: calendar arithmetic                                           *)
(***************************************************************************)
IsLeap(y) == (y % 4 = 0) /\ ((y % 100 # 0) \/ (y % 400 = 0))

DaysInMonth(y, m) ==
    IF m = 2 THEN (IF IsLeap(y) THEN 29 ELSE 28)
    ELSE IF m \in {4, 6, 9, 11} THEN 30 ELSE 31

DaysBeforeYear(y) ==
    (y - 1) * 365 + ((y - 1) \div 4) - ((y - 1) \div 100) + ((y - 1) \div 400)

RECURSIVE DaysBeforeMonth(_, _)
DaysBeforeMonth(y, m) ==
    IF m <= 1 THEN 0 ELSE DaysBeforeMonth(y, m - 1) + DaysInMonth(y, m - 1)

\* does datetime.strptime(s, '%Y-%m-%d') succeed
ValidDate(s) ==
    /\ s[1] \in 1..9999
    /\ s[2] \in 1..12
    /\ s[3] \in 1..DaysInMonth(s[1], s[2])

\* datetime.strptime(s, '%Y-%m-%d').date(), as its proleptic ordinal
ToOrdinal(s) == DaysBeforeYear(s[1]) + DaysBeforeMonth(s[1], s[2]) + s[3]

\* datetime.now().date() when the clock shows t
Today(t) == EpochOrdinal + (t \div SecondsPerDay)

(***************************************************************************)
(* str formatting                                                          *)
(***************************************************************************)
DigitTok == <<"0", "1", "2", "3", "4", "5", "6", "7", "8", "9">>

RECURSIVE Digits(_)
\* str(n) for n >= 0
Digits(n) ==
    IF n < 10 THEN <<DigitTok[n + 1]>>
    ELSE Append(Digits(n \div 10), DigitTok[(n % 10) + 1])

IsDigitTok(c) == \E i \in 1..10 : DigitTok[i] = c

\* str.isdigit()
IsDigit(s) == Len(s) > 0 /\ \A i \in 1..Len(s) : IsDigitTok(s[i])

DigitVal(c) == (CHOOSE i \in 1..10 : DigitTok[i] = c) - 1

RECURSIVE IntOf(_)
\* int(s) for a str of decimal digits
IntOf(s) ==
    IF Len(s) = 0 THEN 0
    ELSE 10 * IntOf(SubSeq(s, 1, Len(s) - 1)) + DigitVal(s[Len(s)])

(***************************************************************************)
(* Python values                                                           *)
(***************************************************************************)
PyNone == [kind |-> "None"]

\* bool(data) for a parsed JSON payload
Truthy(data) == data.kind \notin {"None", "falsy"}

\* 'MRData' in data
HasMRData(data) == data.kind \in {"no_table", "table"}

(***************************************************************************)
(* JolpicaAPIClient                                                        *)
(***************************************************************************)
YearEndpoint == Digits(CurrentSeason)
CurrentEndpoint == <<"current">>
DriverStandingsEndpoint == <<"current", "/", "driverStandings">>
ConstructorStandingsEndpoint == <<"current", "/", "constructorStandings">>

Endpoints ==
    {YearEndpoint, CurrentEndpoint, DriverStandingsEndpoint,
     ConstructorStandingsEndpoint}

TimeBucket(t) == t \div API_CACHE_TTL

\* a cache key that leaves the time bucket out
GetCacheKeyNoBucket(endpoint, t) == endpoint

\* f"{endpoint}_{int(time.time() / self.cache_ttl)}"
GetCacheKey(endpoint, t) == endpoint \o <<"_">> \o Digits(TimeBucket(t))

\* the url of the GET: the season-races variant or the generic one
Url(endpoint) ==
    IF IsDigit(endpoint) \/ endpoint = CurrentEndpoint
    THEN <<"base", "/">> \o endpoint \o <<"/", "races", ".json">>
    ELSE <<"base", "/">> \o endpoint \o <<".json">>

\* the RequestException failures of the try body: session.get raises (a
\* timeout, a connection failure), raise_for_status raises (a non-2xx status)
RequestExceptions == {"timeout", "http_error"}
\* an error of the try body that is no RequestException (a body that is not
\* JSON makes response.json() raise ValueError with requests < 2.27)
OtherErrors == {"value_error"}

IsFailure(resp) == resp.kind \in RequestExceptions \cup OtherErrors

\* one GET: what was asked and what came back
GetRecord(endpoint, t, resp) ==
    [url |-> Url(endpoint), endpoint |-> endpoint, bucket |-> TimeBucket(t),
     outcome |-> IF IsFailure(resp) THEN resp.kind ELSE "ok",
     data |-> IF IsFailure(resp) THEN PyNone ELSE resp]

\* _make_request without `self.cache[cache_key] = data`
MakeRequestNoStore(c, endpoint, t, resp) ==
    LET cache_key == endpoint \o <<"_">> \o Digits(t \div API_CACHE_TTL) IN
    IF cache_key \in DOMAIN c
    THEN [ret |-> c[cache_key], exc |-> "", cache |-> c, gets |-> <<>>,
          hit |-> TRUE]
    ELSE [ret |-> IF IsFailure(resp) THEN PyNone ELSE resp,
          exc |-> IF resp.kind \in OtherErrors THEN "ValueError" ELSE "",
          cache |-> c, gets |-> <<GetRecord(endpoint, t, resp)>>, hit |-> FALSE]

\* _make_request without the cache lookup
MakeRequestNoLookup(c, endpoint, t, resp) ==
    LET cache_key == endpoint \o <<"_">> \o Digits(t \div API_CACHE_TTL) IN
    [ret |-> IF IsFailure(resp) THEN PyNone ELSE resp,
     exc |-> IF resp.kind \in OtherErrors THEN "ValueError" ELSE "",
     cache |-> IF IsFailure(resp) THEN c ELSE (cache_key :> resp) @@ c,
     gets |-> <<GetRecord(endpoint, t, resp)>>, hit |-> FALSE]

\* _make_request dropping every other entry when it stores one
MakeRequestEvict(c, endpoint, t, resp) ==
    LET cache_key == endpoint \o <<"_">> \o Digits(t \div API_CACHE_TTL) IN
    IF cache_key \in DOMAIN c
    THEN [ret |-> c[cache_key], exc |-> "", cache |-> c, gets |-> <<>>,
          hit |-> TRUE]
    ELSE [ret |-> IF IsFailure(resp) THEN PyNone ELSE resp,
          exc |-> IF resp.kind \in OtherErrors THEN "ValueError" ELSE "",
          cache |-> IF IsFailure(resp) THEN c ELSE (cache_key :> resp),
          gets |-> <<GetRecord(endpoint, t, resp)>>, hit |-> FALSE]

\* _make_request storing None under the key when the GET fails
MakeRequestStoreFailure(c, endpoint, t, resp) ==
    LET cache_key == endpoint \o <<"_">> \o Digits(t \div API_CACHE_TTL) IN
    IF cache_key \in DOMAIN c
    THEN [ret |-> c[cache_key], exc |-> "", cache |-> c, gets |-> <<>>,
          hit |-> TRUE]
    ELSE [ret |-> IF IsFailure(resp) THEN PyNone ELSE resp,
          exc |-> IF resp.kind \in OtherErrors THEN "ValueError" ELSE "",
          cache |-> (cache_key :> (IF IsFailure(resp) THEN PyNone ELSE resp)) @@ c,
          gets |-> <<GetRecord(endpoint, t, resp)>>, hit |-> FALSE]

\* _make_request with a second attempt after a GET that failed
MakeRequestRetry(c, endpoint, t, resp) ==
    LET cache_key == endpoint \o <<"_">> \o Digits(t \div API_CACHE_TTL) IN
    IF cache_key \in DOMAIN c
    THEN [ret |-> c[cache_key], exc |-> "", cache |-> c, gets |-> <<>>,
          hit |-> TRUE]
    ELSE IF IsFailure(resp)
    THEN [ret |-> PyNone,
          exc |-> IF resp.kind \in OtherErrors THEN "ValueError" ELSE "",
          cache |-> c,
          gets |-> <<GetRecord(endpoint, t, resp), GetRecord(endpoint, t, resp)>>,
          hit |-> FALSE]
    ELSE [ret |-> resp, exc |-> "", cache |-> (cache_key :> resp) @@ c,
          gets |-> <<GetRecord(endpoint, t, resp)>>, hit |-> FALSE]

\* _make_request with cache c at clock t, the remote answering resp:
\* ret is the value returned, exc the exception raised ("" for none),
\* cache the cache afterwards, gets the GETs issued, hit whether served
\* from the cache
MakeRequest(c, endpoint, t, resp) ==
    LET cache_key == GetCacheKey(endpoint, t) IN
    IF cache_key \in DOMAIN c
    THEN [ret |-> c[cache_key], exc |-> "", cache |-> c, gets |-> <<>>,
          hit |-> TRUE]
    ELSE IF resp.kind \in RequestExceptions
    THEN [ret |-> PyNone, exc |-> "", cache |-> c,
          gets |-> <<GetRecord(endpoint, t, resp)>>, hit |-> FALSE]
    ELSE IF resp.kind \in OtherErrors
    THEN [ret |-> PyNone, exc |-> "ValueError", cache |-> c,
          gets |-> <<GetRecord(endpoint, t, resp)>>, hit |-> FALSE]
    ELSE [ret |-> resp, exc |-> "", cache |-> (cache_key :> resp) @@ c,
          gets |-> <<GetRecord(endpoint, t, resp)>>, hit |-> FALSE]


(***************************************************************************)
(* Remote payloads: the parsed JSON body of a 200 response                 *)
(***************************************************************************)
\* a str of the remote 'time' field or of a schedule entry: its layout and
\* the hour and minute it spells
TimeStr(fmt, h, m) == [fmt |-> fmt, h |-> h, m |-> m]

RemoteRace(round, name, circuit, country, date) ==
    [round |-> round, raceName |-> name,
     Circuit |-> [circuitName |-> circuit, Location |-> [country |-> country]],
     date |-> date]

RaceSep21 ==
    RemoteRace(<<"1", "7">>, "Azerbaijan Grand Prix", "Baku City Circuit",
               "Azerbaijan", <<2025, 9, 21>>)
        @@ [time |-> TimeStr("HH:MM:SSZ", 11, 0)]
\* no 'time' key
RaceSep23 ==
    RemoteRace(<<"1", "8">>, "Singapore Grand Prix",
               "Marina Bay Street Circuit", "Singapore", <<2025, 9, 23>>)
\* a date strptime rejects
RaceBadDate ==
    RemoteRace(<<"1", "9">>, "United States Grand Prix",
               "Circuit of the Americas", "United States", <<2025, 13, 1>>)
\* a round int() rejects
RaceBadRound ==
    RemoteRace(<<"x">>, "Mexican Grand Prix", "Autodromo Hermanos Rodriguez",
               "Mexico", <<2025, 9, 21>>)

RacePool == {RaceSep21, RaceSep23, RaceBadDate, RaceBadRound}

SeqsUpTo(S, n) == UNION {[1..k -> S] : k \in 0..n}

RemoteStanding(position, points, wins) ==
    [position |-> position, points |-> points, wins |-> wins]

DriverP1 ==
    RemoteStanding(<<"1">>, <<"2", "5">>, <<"1">>)
        @@ [Driver |-> [givenName |-> <<"Lewis">>, familyName |-> <<"Hamilton">>],
            Constructors |-> <<[name |-> <<"Ferrari">>], [name |-> <<"Mercedes">>]>>]
\* an empty givenName and no constructor
DriverP2 ==
    RemoteStanding(<<"2">>, <<"1", "8">>, <<"0">>)
        @@ [Driver |-> [givenName |-> <<>>, familyName |-> <<"Hamilton">>],
            Constructors |-> <<>>]
\* half points: int() rejects '12.5'
DriverHalfPoints ==
    RemoteStanding(<<"3">>, <<"1", "2", ".", "5">>, <<"0">>)
        @@ [Driver |-> [givenName |-> <<"Max">>, familyName |-> <<"Verstappen">>],
            Constructors |-> <<[name |-> <<"Red", " ", "Bull">>]>>]

DriverPool == {DriverP1, DriverP2, DriverHalfPoints}

ConstructorP1 ==
    RemoteStanding(<<"1">>, <<"4", "3">>, <<"1">>)
        @@ [Constructor |-> [name |-> <<"McLaren">>]]
ConstructorP2 ==
    RemoteStanding(<<"2">>, <<"4", "0">>, <<"0">>)
        @@ [Constructor |-> [name |-> <<"Ferrari">>]]
\* no 'Constructor' key
ConstructorNoKey == RemoteStanding(<<"3">>, <<"7">>, <<"0">>)

ConstructorPool == {ConstructorP1, ConstructorP2, ConstructorNoKey}

\* a request that fails, by the kind of its failure
FailureResponses == {[kind |-> k] : k \in RequestExceptions \cup OtherErrors}

\* a 200 response whose body lacks the expected tables: JSON null or {},
\* an object without 'MRData', 'MRData' without the nested table
ShapelessResponses == {[kind |-> k] : k \in {"falsy", "no_mrdata", "no_table"}}

RaceResponses ==
    FailureResponses \cup ShapelessResponses
        \cup {[kind |-> "table", Races |-> rs] : rs \in SeqsUpTo(RacePool, MaxRaces)}

DriverStandingsResponses ==
    FailureResponses \cup ShapelessResponses
        \cup {[kind |-> "table", StandingsLists |-> <<>>]}
        \cup {[kind |-> "table", StandingsLists |-> <<[DriverStandings |-> ds]>>] :
                ds \in SeqsUpTo(DriverPool, MaxRaces)}

ConstructorStandingsResponses ==
    FailureResponses \cup ShapelessResponses
        \cup {[kind |-> "table", StandingsLists |-> <<>>]}
        \cup {[kind |-> "table", StandingsLists |-> <<[ConstructorStandings |-> cs]>>] :
                cs \in SeqsUpTo(ConstructorPool, MaxRaces)}

ResponsesFor(endpoint) ==
    IF endpoint = DriverStandingsEndpoint THEN DriverStandingsResponses
    ELSE IF endpoint = ConstructorStandingsEndpoint
    THEN ConstructorStandingsResponses
    ELSE RaceResponses

\* the answers given to a bare _make_request call, which does not look
\* into the payload: every failure, a shapeless body, two tables
ClientResponses ==
    FailureResponses
        \cup {[kind |-> "no_table"], [kind |-> "table", Races |-> <<>>],
              [kind |-> "table", Races |-> <<RaceSep21, RaceSep23>>]}

\* the answer of a request that is not made
NoResponse == [kind |-> "timeout"]

(***************************************************************************)
(* JolpicaAPIClient: the resource methods                                  *)
(***************************************************************************)
\* the outcome of a client method: the value returned, the exception
\* raised, the cache afterwards, the GETs issued
Outcome(ret, exc, r) == [ret |-> ret, exc |-> exc, cache |-> r.cache, gets |-> r.gets]

\* the outcome of get_current_season_races after its second request, which
\* answered m2 after the first answered r1
SecondOutcome(ret, exc, r1, m2) ==
    [ret |-> ret, exc |-> exc, cache |-> m2.cache, gets |-> r1.gets \o m2.gets]

\* get_current_season_races from its second request on
CurrentSeasonRaces(r1, m2) ==
    IF m2.exc # "" THEN SecondOutcome(<<>>, m2.exc, r1, m2)
    ELSE IF Truthy(m2.ret) /\ HasMRData(m2.ret)
    THEN IF "Races" \notin DOMAIN m2.ret
         THEN SecondOutcome(<<>>, "KeyError", r1, m2)
         ELSE SecondOutcome(m2.ret.Races, "", r1, m2)
    ELSE SecondOutcome(<<>>, "", r1, m2)

\* get_current_season_races once its first request has answered r1; the
\* second request is keyed at clock t2
YearSeasonRaces(r1, t2, resp2) ==
    IF r1.exc # "" THEN Outcome(<<>>, r1.exc, r1)
    ELSE IF Truthy(r1.ret) /\ HasMRData(r1.ret) /\ "Races" \notin DOMAIN r1.ret
    THEN Outcome(<<>>, "KeyError", r1)
    ELSE IF Truthy(r1.ret) /\ HasMRData(r1.ret) /\ Len(r1.ret.Races) > 0
    THEN Outcome(r1.ret.Races, "", r1)
    ELSE CurrentSeasonRaces(r1, MakeRequest(r1.cache, CurrentEndpoint, t2, resp2))

\* get_current_season_races, its two requests keyed at clocks t1 and t2
GetCurrentSeasonRaces(c, t1, t2, resp1, resp2) ==
    YearSeasonRaces(MakeRequest(c, YearEndpoint, t1, resp1), t2, resp2)

\* what the client's standings methods make of the answer r
StandingsOf(r, field) ==
    IF r.exc # "" THEN Outcome(<<>>, r.exc, r)
    ELSE IF Truthy(r.ret) /\ HasMRData(r.ret)
    THEN IF "StandingsLists" \notin DOMAIN r.ret
         THEN Outcome(<<>>, "KeyError", r)
         ELSE IF Len(r.ret.StandingsLists) > 0
         THEN IF field \notin DOMAIN r.ret.StandingsLists[1]
              THEN Outcome(<<>>, "KeyError", r)
              ELSE Outcome(r.ret.StandingsLists[1][field], "", r)
         ELSE Outcome(<<>>, "", r)
    ELSE Outcome(<<>>, "", r)

\* get_driver_standings / get_constructor_standings of the client
ClientStandings(c, endpoint, field, t, resp) ==
    StandingsOf(MakeRequest(c, endpoint, t, resp), field)

(***************************************************************************)
(* F1DataManager                                                           *)
(***************************************************************************)
HHMM(h, m) == TimeStr("HH:MM", h, m)

\* the layouts datetime.fromisoformat accepts once 'Z' is replaced by
\* '+00:00': those that start with a calendar date
IsoDateTimeFormats == {"YYYY-MM-DDTHH:MM:SSZ", "YYYY-MM-DDTHH:MM:SS"}

\* _convert_to_ist: fromisoformat, plus 5 h 30 min, strftime('%H:%M');
\* "17:00" when fromisoformat raises
\* the exception the try body of _convert_to_ist raises on utc_time, "" when
\* none: `'Z' in utc_time` raises TypeError on a value that is not a str,
\* fromisoformat raises ValueError on a layout without a date part
FromIsoFormatError(utc_time) ==
    IF "fmt" \notin DOMAIN utc_time THEN "TypeError"
    ELSE IF utc_time.fmt \notin IsoDateTimeFormats THEN "ValueError"
    ELSE ""

\* (time_obj + timedelta(hours=5, minutes=30)).strftime('%H:%M')
PlusIst(h, m) ==
    HHMM(((h * 60 + m + 5 * 60 + 30) % (24 * 60)) \div 60,
         ((h * 60 + m + 5 * 60 + 30) % (24 * 60)) % 60)

\* _convert_to_ist with "12:00" as its default
ConvertToIstNoon(utc_time) ==
    IF FromIsoFormatError(utc_time) = ""
    THEN PlusIst(utc_time.h, utc_time.m)
    ELSE HHMM(12, 0)

ConvertToIst(utc_time) ==
    IF FromIsoFormatError(utc_time) = ""
    THEN PlusIst(utc_time.h, utc_time.m)
    ELSE HHMM(17, 0)

\* _determine_race_status with `>=` for `>`: the day of the race counts as
\* upcoming
DetermineRaceStatusOffByOne(race_date, t) ==
    IF ~ValidDate(race_date) THEN "ValueError"
    ELSE IF ToOrdinal(race_date) >= Today(t) THEN "upcoming"
    ELSE "completed"

\* _determine_race_status, the clock read inside it showing t
DetermineRaceStatus(race_date, t) ==
    LET current_date == Today(t)
        race_date_obj == ToOrdinal(race_date)
    IN  IF ~ValidDate(race_date) THEN "ValueError"
        ELSE IF race_date_obj > current_date THEN "upcoming"
        ELSE IF race_date_obj = current_date THEN "live"
        ELSE "completed"

ScheduleEntry(round, name, circuit, country, date, time, ist) ==
    [round |-> round, name |-> name, circuit |-> circuit, country |-> country,
     date |-> date, time |-> time, race_time_ist |-> ist, status |-> "upcoming"]

\* _get_fallback_schedule: the definition the class ends up with, the
\* second one, which replaces the one that recomputes every status
GetFallbackSchedule ==
    << ScheduleEntry(17, "Qatar Airways Azerbaijan Grand Prix",
                     "Baku City Circuit", "Azerbaijan", <<2025, 9, 21>>,
                     HHMM(17, 0), HHMM(17, 0)),
       ScheduleEntry(18, "Singapore Grand Prix", "Marina Bay Street Circuit",
                     "Singapore", <<2025, 10, 5>>, HHMM(12, 0), HHMM(17, 30)),
       ScheduleEntry(19, "United States Grand Prix", "Circuit of the Americas",
                     "United States", <<2025, 10, 20>>, HHMM(19, 0), HHMM(4, 30)),
       ScheduleEntry(20, "Mexican Grand Prix", "Autodromo Hermanos Rodriguez",
                     "Mexico", <<2025, 10, 27>>, HHMM(20, 0), HHMM(6, 30)),
       ScheduleEntry(21, "Sao Paulo Grand Prix", "Autodromo Jose Carlos Pace",
                     "Brazil", <<2025, 11, 3>>, HHMM(18, 0), HHMM(4, 30)),
       ScheduleEntry(22, "Las Vegas Grand Prix", "Las Vegas Street Circuit",
                     "United States", <<2025, 11, 23>>, HHMM(6, 0), HHMM(16, 30)) >>

\* race.get('time', '12:00:00')
RaceTime(race) ==
    IF "time" \in DOMAIN race THEN race.time ELSE TimeStr("HH:MM:SS", 12, 0)

\* does the loop body of get_live_race_schedule raise on this record
RaceRaises(race, current_date) ==
    \/ ~ValidDate(race.date)
    \/ /\ ToOrdinal(race.date) >= current_date
       /\ \/ ~IsDigit(race.round)
          \/ {"raceName", "Circuit"} \ DOMAIN race # {}

\* the record the loop body builds, its status computed at clock t
ProcessRace(race, t) ==
    [round |-> IntOf(race.round),
     name |-> race.raceName,
     circuit |-> race.Circuit.circuitName,
     country |-> race.Circuit.Location.country,
     date |-> race.date,
     time |-> RaceTime(race),
     race_time_ist |-> ConvertToIst(RaceTime(race)),
     status |-> DetermineRaceStatus(race.date, t)]

\* the date filter with `>` for `>=`: the race of the day is dropped
IsUpcomingStrict(race, current_date) == ToOrdinal(race.date) > current_date

\* is this record kept by the date filter
IsUpcoming(race, current_date) == ToOrdinal(race.date) >= current_date

RECURSIVE ProcessRaces(_, _, _, _)
\* the loop of get_live_race_schedule from record i on; T[i] is the clock
\* at the status computation of record i
ProcessRaces(races, i, current_date, T) ==
    IF i > Len(races) THEN <<>>
    ELSE IF IsUpcoming(races[i], current_date)
    THEN <<ProcessRace(races[i], T[i])>>
             \o ProcessRaces(races, i + 1, current_date, T)
    ELSE ProcessRaces(races, i + 1, current_date, T)

RECURSIVE StatusReads(_, _, _, _)
\* the clock at the status computation of each record the loop keeps
StatusReads(races, i, current_date, T) ==
    IF i > Len(races) THEN <<>>
    ELSE IF IsUpcoming(races[i], current_date)
    THEN <<T[i]>> \o StatusReads(races, i + 1, current_date, T)
    ELSE StatusReads(races, i + 1, current_date, T)

\* the outcome of a manager method: as Outcome, with the list the client
\* gave, the date the filter read, the clock at each status computation,
\* whether fallback data was returned and the exception a handler caught
MgrOutcome(ret, exc, r, races, today, status_at, fallback) ==
    [ret |-> ret, exc |-> exc, cache |-> r.cache, gets |-> r.gets,
     races |-> races, today |-> today, status_at |-> status_at,
     fallback |-> fallback, caught |-> ""]

\* a method body without its try / except
ExceptMissing(o, handler) == o

\* try: body / except Exception: return handler
Except(o, handler) ==
    IF o.exc = "" THEN o
    ELSE [o EXCEPT !.ret = handler, !.exc = "", !.caught = o.exc,
                   !.fallback = TRUE]

\* get_live_race_schedule without `if not processed_races`
ScheduleNoFallback(processed_races) ==
    [ret |-> processed_races, fallback |-> FALSE]

\* the end of the try body of get_live_race_schedule: the fallback when no
\* record was kept
ScheduleOrFallback(processed_races) ==
    IF processed_races = <<>>
    THEN [ret |-> GetFallbackSchedule, fallback |-> TRUE]
    ELSE [ret |-> processed_races, fallback |-> FALSE]

\* what get_live_race_schedule returns from its try body: end is the list
\* it ends with (the records kept, or the fallback), r the client's answer
ScheduleOutcome(end, r, current_date, T) ==
    MgrOutcome(end.ret, "", r, r.ret, current_date,
               IF end.fallback THEN <<>>
               ELSE StatusReads(r.ret, 1, current_date, T),
               end.fallback)

\* the try body of get_live_race_schedule once the client has answered r
LiveRaceSchedule(r, current_date, T) ==
    IF r.exc # ""
    THEN MgrOutcome(<<>>, r.exc, r, r.ret, current_date, <<>>, FALSE)
    ELSE IF \E i \in 1..Len(r.ret) : RaceRaises(r.ret[i], current_date)
    THEN MgrOutcome(<<>>, "ValueError", r, r.ret, current_date, <<>>, FALSE)
    ELSE ScheduleOutcome(ScheduleOrFallback(ProcessRaces(r.ret, 1, current_date, T)),
                         r, current_date, T)

\* the try body of get_live_race_schedule
LiveRaceScheduleBody(c, t1, t2, t3, T, resp1, resp2) ==
    LiveRaceSchedule(GetCurrentSeasonRaces(c, t1, t2, resp1, resp2), Today(t3), T)

\* get_live_race_schedule: the client's requests keyed at clocks t1 and t2,
\* the filter's date read at t3, the status of record i computed at T[i]
GetLiveRaceSchedule(c, t1, t2, t3, T, resp1, resp2) ==
    Except(LiveRaceScheduleBody(c, t1, t2, t3, T, resp1, resp2),
           GetFallbackSchedule)

\* get_race_schedule
GetRaceSchedule(c, t1, t2, t3, T, resp1, resp2) ==
    Except(GetLiveRaceSchedule(c, t1, t2, t3, T, resp1, resp2),
           GetFallbackSchedule)

\* f"{next_race['circuit']}, {next_race['country']}"
Location(race) == <<race.circuit, ", ", race.country>>

\* next_race with its location field
WithLocation(next_race) ==
    IF "location" \in DOMAIN next_race THEN next_race
    ELSE next_race @@ [location |-> Location(next_race)]

\* get_next_race answering None when the schedule it got is the fallback
NextRaceLiveOnly(m, r) ==
    IF r.exc # "" THEN r
    ELSE IF Len(r.ret) > 0 /\ ~r.fallback
    THEN [r EXCEPT !.ret = r.ret[1] @@ [location |-> <<r.ret[1].circuit, ", ",
                                                      r.ret[1].country>>]]
    ELSE [r EXCEPT !.ret = PyNone, !.fallback = TRUE]

\* get_next_race taking the last race of the schedule for the first
NextRaceLast(m, r) ==
    IF r.exc # "" THEN r
    ELSE IF Len(r.ret) > 0
    THEN [r EXCEPT !.ret = r.ret[Len(r.ret)]
                              @@ [location |-> <<r.ret[Len(r.ret)].circuit, ", ",
                                                 r.ret[Len(r.ret)].country>>]]
    ELSE [r EXCEPT !.ret = m.fallback_data.next_race, !.fallback = TRUE]

\* the try body of get_next_race once get_live_race_schedule has answered r
NextRace(m, r) ==
    IF r.exc # "" THEN r
    ELSE IF Len(r.ret) > 0
    THEN [r EXCEPT !.ret = WithLocation(r.ret[1])]
    ELSE [r EXCEPT !.ret = m.fallback_data.next_race, !.fallback = TRUE]

\* the try body of get_next_race
NextRaceBody(m, c, t1, t2, t3, T, resp1, resp2) ==
    NextRace(m, GetLiveRaceSchedule(c, t1, t2, t3, T, resp1, resp2))

\* get_next_race; m is the manager's state
GetNextRace(m, c, t1, t2, t3, T, resp1, resp2) ==
    Except(NextRaceBody(m, c, t1, t2, t3, T, resp1, resp2),
           m.fallback_data.next_race)

\* str.strip() on a str given as its tokens
RECURSIVE LStrip(_)
LStrip(s) == IF Len(s) > 0 /\ s[1] = " " THEN LStrip(Tail(s)) ELSE s

RECURSIVE RStrip(_)
RStrip(s) ==
    IF Len(s) > 0 /\ s[Len(s)] = " " THEN RStrip(SubSeq(s, 1, Len(s) - 1)) ELSE s

\* a full name left as it was put together
NoStrip(s) == s

Strip(s) == RStrip(LStrip(s))

\* dict.get(key, default)
DictGet(d, key, default) == IF key \in DOMAIN d THEN d[key] ELSE default

\* does int() raise on one of the three numbers of a standings record
NumbersRaise(standing) ==
    \/ ~IsDigit(standing.position)
    \/ ~IsDigit(standing.points)
    \/ ~IsDigit(standing.wins)

\* does the loop body of get_driver_standings raise on this record
DriverRaises(standing) ==
    \/ {"Driver", "Constructors"} \ DOMAIN standing # {}
    \/ NumbersRaise(standing)

\* the record the loop body of get_driver_standings builds
ProcessDriver(standing) ==
    LET driver == standing.Driver
        constructor ==
            IF Len(standing.Constructors) > 0 THEN standing.Constructors[1]
            ELSE [none |-> TRUE]
        full_name ==
            Strip(DictGet(driver, "givenName", <<>>) \o <<" ">>
                      \o DictGet(driver, "familyName", <<>>))
    IN  [position |-> IntOf(standing.position),
         driver |-> full_name,
         team |-> DictGet(constructor, "name", <<"Unknown">>),
         points |-> IntOf(standing.points),
         wins |-> IntOf(standing.wins)]

\* does the loop body of get_constructor_standings raise on this record
ConstructorRaises(standing) ==
    \/ "Constructor" \notin DOMAIN standing
    \/ "name" \notin DOMAIN standing.Constructor
    \/ NumbersRaise(standing)

\* the record the loop body of get_constructor_standings builds
ProcessConstructor(standing) ==
    [position |-> IntOf(standing.position),
     team |-> standing.Constructor.name,
     points |-> IntOf(standing.points),
     wins |-> IntOf(standing.wins)]

\* self.driver_standings as __init__ leaves it
InitDriverStandings ==
    << [position |-> 1, driver |-> <<"Max", " ", "Verstappen">>,
        team |-> <<"Red", " ", "Bull", " ", "Racing">>, points |-> 408,
        wins |-> 8, podiums |-> 15],
       [position |-> 2, driver |-> <<"Lando", " ", "Norris">>,
        team |-> <<"McLaren">>, points |-> 371, wins |-> 4, podiums |-> 12],
       [position |-> 3, driver |-> <<"Charles", " ", "Leclerc">>,
        team |-> <<"Ferrari">>, points |-> 356, wins |-> 3, podiums |-> 11] >>

\* self.constructor_standings as __init__ leaves it
InitConstructorStandings ==
    << [position |-> 1, team |-> <<"Red", " ", "Bull", " ", "Racing">>,
        points |-> 589, wins |-> 8],
       [position |-> 2, team |-> <<"McLaren">>, points |-> 544, wins |-> 4],
       [position |-> 3, team |-> <<"Ferrari">>, points |-> 537, wins |-> 5] >>

\* fallback_data.RACE_SCHEDULE of config.py, taken to be the schedule the
\* manager itself falls back to
ConfigRaceSchedule == GetFallbackSchedule

\* the state of the manager after __init__
InitManager ==
    [current_season |-> 2025,
     completed_races |-> <<>>,
     cache |-> <<>>,
     constructor_standings |-> InitConstructorStandings,
     driver_standings |-> InitDriverStandings,
     fallback_data |->
        [next_race |->
            IF Len(ConfigRaceSchedule) > 0 THEN ConfigRaceSchedule[1]
            ELSE ScheduleEntry(0, "Next Race", "TBD", "TBD", <<2025, 12, 31>>,
                               HHMM(17, 0), HHMM(17, 0))]]

\* get_driver_standings skipping the records it cannot normalise
DriverStandingsPartial(m, r) ==
    IF r.exc # ""
    THEN MgrOutcome(<<>>, r.exc, r, r.ret, 0, <<>>, FALSE)
    ELSE IF Len(r.ret) > 0
    THEN MgrOutcome([i \in 1..Len(SelectSeq(r.ret, LAMBDA s : ~DriverRaises(s))) |->
                        ProcessDriver(SelectSeq(r.ret, LAMBDA s : ~DriverRaises(s))[i])],
                    "", r, r.ret, 0, <<>>, FALSE)
    ELSE MgrOutcome(m.driver_standings, "", r, r.ret, 0, <<>>, TRUE)

\* the try body of get_driver_standings once the client has answered r
DriverStandings(m, r) ==
    IF r.exc # ""
    THEN MgrOutcome(<<>>, r.exc, r, r.ret, 0, <<>>, FALSE)
    ELSE IF Len(r.ret) > 0
    THEN IF \E i \in 1..Len(r.ret) : DriverRaises(r.ret[i])
         THEN MgrOutcome(<<>>, "ValueError", r, r.ret, 0, <<>>, FALSE)
         ELSE MgrOutcome([i \in 1..Len(r.ret) |-> ProcessDriver(r.ret[i])],
                         "", r, r.ret, 0, <<>>, FALSE)
    ELSE MgrOutcome(m.driver_standings, "", r, r.ret, 0, <<>>, TRUE)

\* the try body of get_driver_standings
DriverStandingsBody(m, c, t, resp) ==
    DriverStandings(m, ClientStandings(c, DriverStandingsEndpoint,
                                       "DriverStandings", t, resp))

\* get_driver_standings of the manager
GetDriverStandings(m, c, t, resp) ==
    Except(DriverStandingsBody(m, c, t, resp), m.driver_standings)

\* the try body of get_constructor_standings once the client has answered r
ConstructorStandings(m, r) ==
    IF r.exc # ""
    THEN MgrOutcome(<<>>, r.exc, r, r.ret, 0, <<>>, FALSE)
    ELSE IF Len(r.ret) > 0
    THEN IF \E i \in 1..Len(r.ret) : ConstructorRaises(r.ret[i])
         THEN MgrOutcome(<<>>, "KeyError", r, r.ret, 0, <<>>, FALSE)
         ELSE MgrOutcome([i \in 1..Len(r.ret) |-> ProcessConstructor(r.ret[i])],
                         "", r, r.ret, 0, <<>>, FALSE)
    ELSE MgrOutcome(m.constructor_standings, "", r, r.ret, 0, <<>>, TRUE)

\* the try body of get_constructor_standings
ConstructorStandingsBody(m, c, t, resp) ==
    ConstructorStandings(m, ClientStandings(c, ConstructorStandingsEndpoint,
                                            "ConstructorStandings", t, resp))

\* get_constructor_standings of the manager
GetConstructorStandings(m, c, t, resp) ==
    Except(ConstructorStandingsBody(m, c, t, resp), m.constructor_standings)

ResultRow(position, driver, team, time) ==
    [position |-> position, driver |-> driver, team |-> team, time |-> time]

\* _get_fallback_race_results
GetFallbackRaceResults ==
    [race_name |-> "Italian Grand Prix", circuit |-> "Monza",
     date |-> <<2025, 9, 1>>,
     results |->
        << ResultRow(1, "Max Verstappen", "Red Bull Racing", "1:32:11.000"),
           ResultRow(2, "Charles Leclerc", "Ferrari", "+4.200s"),
           ResultRow(3, "Lando Norris", "McLaren", "+7.581s"),
           ResultRow(4, "Lewis Hamilton", "Ferrari", "+12.341s"),
           ResultRow(5, "Fernando Alonso", "Aston Martin", "+18.902s"),
           ResultRow(6, "Oscar Piastri", "McLaren", "+21.445s") >>]

\* get_latest_race_results asking the client for the results first
GetLatestRaceResultsLive(c) ==
    MgrOutcome(GetFallbackRaceResults, "",
               MakeRequest(c, <<"current", "/", "last", "/", "results">>, now,
                           NoResponse),
               <<>>, 0, <<>>, TRUE)

\* get_latest_race_results: no request is made
GetLatestRaceResults(c) ==
    Except(MgrOutcome(GetFallbackRaceResults, "", [cache |-> c, gets |-> <<>>],
                      <<>>, 0, <<>>, TRUE),
           GetFallbackRaceResults)

(***************************************************************************)
(* The system: the global f1_data_manager with its client, the remote API  *)
(* and the clock.  One action per operation; the remote's answer to each   *)
(* GET and the instant the clock advances during a call are inputs.        *)
(***************************************************************************)
\* the answers the remote may give to a request for endpoint keyed at
\* clock t (none is asked when the cache holds the key)
Answers(c, endpoint, t) ==
    IF GetCacheKey(endpoint, t) \in DOMAIN c THEN {NoResponse}
    ELSE ResponsesFor(endpoint)

ManagerOps ==
    {"get_live_race_schedule", "get_race_schedule", "get_next_race",
     "get_driver_standings", "get_constructor_standings",
     "get_latest_race_results"}

\* no manager method has been called yet
Idle == last.op \notin ManagerOps

\* does get_current_season_races go on to its second request after its
\* first answered r1
AsksCurrent(r1) ==
    /\ r1.exc = ""
    /\ ~(Truthy(r1.ret) /\ HasMRData(r1.ret)
           /\ ("Races" \notin DOMAIN r1.ret \/ Len(r1.ret.Races) > 0))

SecondRequestMade(c, t1, resp1) ==
    AsksCurrent(MakeRequest(c, YearEndpoint, t1, resp1))

SecondAnswers(c, t1, t2, resp1) ==
    IF SecondRequestMade(c, t1, resp1)
    THEN Answers(MakeRequest(c, YearEndpoint, t1, resp1).cache, CurrentEndpoint, t2)
    ELSE {NoResponse}

\* clock reads of one schedule call: two cache keys, the filter's date, one
\* status per record
NReads == 3 + MaxRaces

\* the clock at read i of a call during which it advances after read k
ReadTime(i, k) == IF i > k THEN now + TickSeconds ELSE now

\* what is remembered of the last call
Last(op, endpoint, o) ==
    [op |-> op, endpoint |-> endpoint, t |-> now, ret |-> o.ret, exc |-> o.exc,
     gets |-> o.gets, hit |-> DictGet(o, "hit", FALSE),
     races |-> DictGet(o, "races", <<>>), today |-> DictGet(o, "today", 0),
     status_at |-> DictGet(o, "status_at", <<>>),
     fallback |-> DictGet(o, "fallback", FALSE),
     caught |-> DictGet(o, "caught", ""),
     requests |-> DictGet(o, "requests", <<>>),
     arg |-> DictGet(o, "arg", <<>>)]

\* the request handlers that may run at once, each in a thread of the server
Handlers == {"h1", "h2"}

\* a handler that is not inside _make_request
NoCall == [pc |-> "idle"]

Init ==
    /\ now \in StartTimes
    /\ cache = <<>>
    /\ gets = <<>>
    /\ calls = 0
    /\ mgr = InitManager
    /\ last = Last("__init__", <<>>,
                   [ret |-> PyNone, exc |-> "", gets |-> <<>>])
    /\ threads = [h \in Handlers |-> NoCall]

\* time passes between two calls
Tick ==
    /\ TickCount(now) < MaxTicks
    /\ now' = now + TickSeconds
    /\ UNCHANGED <<cache, gets, calls, mgr, last, threads>>

\* the entry of the log of outbound GETs for the GET g
Logged(g) ==
    [endpoint |-> g.endpoint, bucket |-> g.bucket, ok |-> g.outcome = "ok",
     data |-> g.data]

\* get_next_race keeping the record it returns as fallback_data["next_race"]
ManagerAfterShared(m, op, o) ==
    IF op = "get_next_race"
    THEN [m EXCEPT !.fallback_data = [next_race |-> o.ret]]
    ELSE m

\* the manager m after the call op with outcome o: no method of the client
\* or read method of the manager assigns to an attribute of the manager, and
\* the one store into a record, next_race["location"] on line 280, goes
\* into a record of the list built during the call
ManagerAfter(m, op, o) == m

\* the effect of a call with outcome o
Called(op, endpoint, o) ==
    /\ cache' = o.cache
    /\ gets' = gets \o [i \in 1..Len(o.gets) |-> Logged(o.gets[i])]
    /\ last' = Last(op, endpoint, o)
    /\ mgr' = ManagerAfter(mgr, op, o)
    /\ UNCHANGED threads

\* JolpicaAPIClient._make_request(endpoint), the remote answering with one
\* of responses
RequestCall(responses) ==
    /\ calls < MaxCalls
    /\ \E endpoint \in Endpoints :
         \E resp \in IF GetCacheKey(endpoint, now) \in DOMAIN cache
                     THEN {NoResponse} ELSE responses :
            Called("_make_request", endpoint, MakeRequest(cache, endpoint, now, resp))
    /\ calls' = calls + 1
    /\ UNCHANGED now

\* JolpicaAPIClient._make_request(endpoint)
MakeRequestCall == RequestCall(ClientResponses)

\* the first request of the process, made before the manager is used and
\* answered with a payload, which it leaves in the cache (one that fails
\* leaves the client as it was)
FirstRequest ==
    /\ Idle
    /\ calls = 0
    /\ RequestCall(ClientResponses \ FailureResponses)

\* a schedule method of the manager: the clock advances after read k of
\* the call, or not at all when k = NReads
ScheduleCall(op, k, resp1, resp2) ==
    LET T == [i \in 1..MaxRaces |-> ReadTime(3 + i, k)] IN
    /\ now' = ReadTime(NReads, k)
    /\ Called(op, <<>>,
              IF op = "get_next_race"
              THEN GetNextRace(mgr, cache, ReadTime(1, k), ReadTime(2, k),
                               ReadTime(3, k), T, resp1, resp2)
              ELSE IF op = "get_race_schedule"
              THEN GetRaceSchedule(cache, ReadTime(1, k), ReadTime(2, k),
                                   ReadTime(3, k), T, resp1, resp2)
              ELSE GetLiveRaceSchedule(cache, ReadTime(1, k), ReadTime(2, k),
                                       ReadTime(3, k), T, resp1, resp2))

ScheduleCalls(op) ==
    /\ Idle
    /\ \E k \in 1..NReads :
         /\ k < NReads => TickCount(now) < MaxTicks
         /\ \E resp1 \in Answers(cache, YearEndpoint, ReadTime(1, k)) :
              \E resp2 \in SecondAnswers(cache, ReadTime(1, k), ReadTime(2, k), resp1) :
                 ScheduleCall(op, k, resp1, resp2)
    /\ UNCHANGED calls

\* F1DataManager.get_live_race_schedule()
GetLiveRaceScheduleCall == ScheduleCalls("get_live_race_schedule")

\* F1DataManager.get_race_schedule()
GetRaceScheduleCall == ScheduleCalls("get_race_schedule")

\* F1DataManager.get_next_race()
GetNextRaceCall == ScheduleCalls("get_next_race")

\* F1DataManager.get_driver_standings()
GetDriverStandingsCall ==
    /\ Idle
    /\ \E resp \in Answers(cache, DriverStandingsEndpoint, now) :
         Called("get_driver_standings", <<>>,
                GetDriverStandings(mgr, cache, now, resp))
    /\ UNCHANGED <<now, calls>>

\* F1DataManager.get_constructor_standings()
GetConstructorStandingsCall ==
    /\ Idle
    /\ \E resp \in Answers(cache, ConstructorStandingsEndpoint, now) :
         Called("get_constructor_standings", <<>>,
                GetConstructorStandings(mgr, cache, now, resp))
    /\ UNCHANGED <<now, calls>>

\* F1DataManager.get_latest_race_results()
GetLatestRaceResultsCall ==
    /\ Idle
    /\ Called("get_latest_race_results", <<>>, GetLatestRaceResults(cache))
    /\ UNCHANGED <<now, calls>>

\* time passes before the manager is called
TickIdle == Idle /\ Tick

\* the manager, called once, on a fresh client or after a first request
Next ==
    \/ TickIdle
    \/ FirstRequest
    \/ GetLiveRaceScheduleCall
    \/ GetRaceScheduleCall
    \/ GetNextRaceCall
    \/ GetDriverStandingsCall
    \/ GetConstructorStandingsCall
    \/ GetLatestRaceResultsCall

Spec == Init /\ [][Next]_vars

\* the client alone: a sequence of requests as the clock advances
NextClient ==
    \/ Tick
    \/ MakeRequestCall

SpecClient == Init /\ [][NextClient]_vars

(***************************************************************************)
(* get_current_season_races on its own, on a fresh client or after a first *)
(* request                                                                 *)
(***************************************************************************)
\* neither the manager nor a method of the client above _make_request has
\* been called yet
Fresh == last.op \in {"__init__", "_make_request"}

\* a _make_request call as its caller sees it: the endpoint asked for, the
\* value returned, the exception raised
RequestOf(endpoint, r) == [endpoint |-> endpoint, ret |-> r.ret, exc |-> r.exc]

\* the _make_request calls of get_current_season_races, its first having
\* answered r1
SeasonRequests(r1, t2, resp2) ==
    <<RequestOf(YearEndpoint, r1)>>
        \o IF AsksCurrent(r1)
           THEN <<RequestOf(CurrentEndpoint,
                            MakeRequest(r1.cache, CurrentEndpoint, t2, resp2))>>
           ELSE <<>>

\* JolpicaAPIClient.get_current_season_races(): the clock advances between
\* its two requests (k = 1) or not at all (k = 2)
GetCurrentSeasonRacesCall ==
    /\ Fresh
    /\ \E k \in 1..2 :
         /\ k < 2 => TickCount(now) < MaxTicks
         /\ now' = ReadTime(2, k)
         /\ \E resp1 \in Answers(cache, YearEndpoint, ReadTime(1, k)) :
              \E resp2 \in SecondAnswers(cache, ReadTime(1, k), ReadTime(2, k), resp1) :
                 Called("get_current_season_races", <<>>,
                        [requests |-> SeasonRequests(
                             MakeRequest(cache, YearEndpoint, ReadTime(1, k), resp1),
                             ReadTime(2, k), resp2)]
                        @@ GetCurrentSeasonRaces(cache, ReadTime(1, k),
                                                 ReadTime(2, k), resp1, resp2))
    /\ UNCHANGED calls

\* a first request, made before anything else
SeasonFirstRequest == last.op = "__init__" /\ FirstRequest

\* time passes before get_current_season_races is called
SeasonTick == Fresh /\ Tick

NextSeason ==
    \/ SeasonTick
    \/ SeasonFirstRequest
    \/ GetCurrentSeasonRacesCall

SpecSeason == Init /\ [][NextSeason]_vars

(***************************************************************************)
(* Route handlers: one inbound API call each, on a fresh client.  Of a     *)
(* handler the calls it makes to the manager are modelled, not the JSON it *)
(* builds from their results.                                              *)
(***************************************************************************)
RouteOps == {"api_next_race", "api_mini_predictions"}

\* the clock reads of a schedule method during which the clock stands still
StillClock == [i \in 1..MaxRaces |-> now]

\* what a handler has done after two manager calls with outcomes o1 and o2
Both(o1, o2) ==
    [o2 EXCEPT !.gets = o1.gets \o o2.gets,
               !.ret = [driver_standings |-> o1.ret, next_race |-> o2.ret]]

\* api_mini_predictions once get_driver_standings has answered o1
MiniPredictions(o1, resp1, resp2) ==
    Both(o1, GetNextRace(mgr, o1.cache, now, now, now, StillClock, resp1, resp2))

\* GET /api/next-race
ApiNextRaceCall ==
    /\ last.op = "__init__"
    /\ \E resp1 \in Answers(cache, YearEndpoint, now) :
         \E resp2 \in SecondAnswers(cache, now, now, resp1) :
            Called("api_next_race", <<>>,
                   GetNextRace(mgr, cache, now, now, now, StillClock, resp1, resp2))
    /\ UNCHANGED <<now, calls>>

\* GET /api/mini-predictions
ApiMiniPredictionsCall ==
    /\ last.op = "__init__"
    /\ \E resp0 \in Answers(cache, DriverStandingsEndpoint, now) :
         \E resp1 \in Answers(cache, YearEndpoint, now) :
            \E resp2 \in SecondAnswers(cache, now, now, resp1) :
               Called("api_mini_predictions", <<>>,
                      MiniPredictions(GetDriverStandings(mgr, cache, now, resp0),
                                      resp1, resp2))
    /\ UNCHANGED <<now, calls>>

NextRoutes ==
    \/ Tick
    \/ ApiNextRaceCall
    \/ ApiMiniPredictionsCall

SpecRoutes == Init /\ [][NextRoutes]_vars

(***************************************************************************)
(* Two handlers calling _make_request at once on the global client.  The   *)
(* method takes no lock: its lookup, its fetch and its store are steps     *)
(* that the steps of the other thread may come between.                    *)
(***************************************************************************)
\* the endpoints the concurrent handlers ask for
SharedEndpoints == {YearEndpoint, CurrentEndpoint}

\* cache_key = self._get_cache_key(endpoint); if cache_key in self.cache:
\* return self.cache[cache_key]
Lookup(h) ==
    /\ threads[h].pc = "idle"
    /\ \E endpoint \in SharedEndpoints :
         LET cache_key == GetCacheKey(endpoint, now) IN
         threads' = [threads EXCEPT ![h] =
             IF cache_key \in DOMAIN cache
             THEN [pc |-> "done", endpoint |-> endpoint, t |-> now,
                   cache_key |-> cache_key, ret |-> cache[cache_key],
                   exc |-> "", hit |-> TRUE]
             ELSE [pc |-> "fetch", endpoint |-> endpoint, t |-> now,
                   cache_key |-> cache_key]]
    /\ UNCHANGED <<now, cache, gets, calls, mgr, last>>

\* response = self.session.get(...); raise_for_status(); data = json()
Fetch(h) ==
    /\ threads[h].pc = "fetch"
    /\ \E resp \in ClientResponses :
         /\ gets' = Append(gets, Logged(GetRecord(threads[h].endpoint,
                                                  threads[h].t, resp)))
         /\ threads' = [threads EXCEPT ![h] =
              IF IsFailure(resp)
              THEN [@ EXCEPT !.pc = "done"]
                      @@ [ret |-> PyNone, hit |-> FALSE,
                          exc |-> IF resp.kind \in OtherErrors
                                  THEN "ValueError" ELSE ""]
              ELSE [@ EXCEPT !.pc = "store"] @@ [data |-> resp]]
    /\ UNCHANGED <<now, cache, calls, mgr, last>>

\* self.cache[cache_key] = data; return data
Store(h) ==
    /\ threads[h].pc = "store"
    /\ cache' = (threads[h].cache_key :> threads[h].data) @@ cache
    /\ threads' = [threads EXCEPT ![h] =
         [@ EXCEPT !.pc = "done"]
            @@ [ret |-> threads[h].data, exc |-> "", hit |-> FALSE]]
    /\ UNCHANGED <<now, gets, calls, mgr, last>>

NextConcurrent ==
    \/ Tick
    \/ \E h \in Handlers : Lookup(h)
    \/ \E h \in Handlers : Fetch(h)
    \/ \E h \in Handlers : Store(h)

SpecConcurrent == Init /\ [][NextConcurrent]_vars

(***************************************************************************)
(* _determine_race_status on its own: every date of StatusDates at every   *)
(* clock value                                                             *)
(***************************************************************************)
StatusDates == {<<y, m, d>> : y \in {2024, 2025}, m \in {2, 9}, d \in {20, 21, 22, 23, 29}}

\* F1DataManager._determine_race_status(race_date)
DetermineRaceStatusCall ==
    /\ \E race_date \in StatusDates :
         LET status == DetermineRaceStatus(race_date, now) IN
         Called("_determine_race_status", <<>>,
                [ret |-> IF status = "ValueError" THEN "" ELSE status,
                 exc |-> IF status = "ValueError" THEN status ELSE "",
                 cache |-> cache, gets |-> <<>>, races |-> <<race_date>>,
                 today |-> Today(now)])
    /\ UNCHANGED <<now, calls>>

NextStatus ==
    \/ Tick
    \/ DetermineRaceStatusCall

SpecStatus == Init /\ [][NextStatus]_vars

(***************************************************************************)
(* _convert_to_ist on its own: every layout of TimeFormats at every hour,   *)
(* and a value that is not a string                                        *)
(***************************************************************************)
TimeFormats ==
    {"HH:MM:SSZ", "HH:MM:SS", "YYYY-MM-DDTHH:MM:SSZ", "YYYY-MM-DDTHH:MM:SS",
     "garbage", "empty"}

TimeInputs ==
    {TimeStr(f, h, m) : f \in TimeFormats \ {"garbage", "empty"},
                        h \in 0..23, m \in {0, 29, 30, 59}}
    \cup {TimeStr("garbage", 0, 0), TimeStr("empty", 0, 0), PyNone}

\* F1DataManager._convert_to_ist(utc_time); the bare except leaves no
\* exception to the caller
ConvertToIstCall ==
    /\ \E utc_time \in TimeInputs :
         Called("_convert_to_ist", <<>>,
                [ret |-> ConvertToIst(utc_time), exc |-> "", cache |-> cache,
                 gets |-> <<>>, arg |-> utc_time,
                 caught |-> FromIsoFormatError(utc_time)])
    /\ UNCHANGED <<now, calls>>

NextConvert ==
    \/ Tick
    \/ ConvertToIstCall

SpecConvert == Init /\ [][NextConvert]_vars

(***************************************************************************)
(* The read methods of the manager one after another, up to MaxReads calls *)
(* as the clock advances between them                                      *)
(***************************************************************************)
\* the answers to a request during a sequence of reads: a failure, an empty
\* table, a table of one record that normalises, one that does not
ReadResponses(endpoint) ==
    {[kind |-> "timeout"]} \cup
    IF endpoint = DriverStandingsEndpoint
    THEN {[kind |-> "table", StandingsLists |-> <<>>],
          [kind |-> "table", StandingsLists |-> <<[DriverStandings |-> <<DriverP1>>]>>]}
    ELSE IF endpoint = ConstructorStandingsEndpoint
    THEN {[kind |-> "table", StandingsLists |-> <<[ConstructorStandings |-> <<ConstructorP1>>]>>],
          [kind |-> "table", StandingsLists |-> <<[ConstructorStandings |-> <<ConstructorNoKey>>]>>]}
    ELSE {[kind |-> "table", Races |-> <<>>],
          [kind |-> "table", Races |-> <<RaceSep23>>],
          [kind |-> "table", Races |-> <<RaceBadDate>>]}

ReadAnswers(c, endpoint, t) ==
    IF GetCacheKey(endpoint, t) \in DOMAIN c THEN {NoResponse}
    ELSE ReadResponses(endpoint)

ReadSecondAnswers(c, t, resp1) ==
    IF SecondRequestMade(c, t, resp1)
    THEN ReadAnswers(MakeRequest(c, YearEndpoint, t, resp1).cache, CurrentEndpoint, t)
    ELSE {NoResponse}

\* one more call of a schedule method
ReadSchedule(op) ==
    /\ calls < MaxReads
    /\ \E resp1 \in ReadAnswers(cache, YearEndpoint, now) :
         \E resp2 \in ReadSecondAnswers(cache, now, resp1) :
            ScheduleCall(op, NReads, resp1, resp2)
    /\ calls' = calls + 1

ReadLiveRaceSchedule == ReadSchedule("get_live_race_schedule")

ReadRaceSchedule == ReadSchedule("get_race_schedule")

ReadNextRace == ReadSchedule("get_next_race")

ReadDriverStandings ==
    /\ calls < MaxReads
    /\ \E resp \in ReadAnswers(cache, DriverStandingsEndpoint, now) :
         Called("get_driver_standings", <<>>,
                GetDriverStandings(mgr, cache, now, resp))
    /\ calls' = calls + 1
    /\ UNCHANGED now

ReadConstructorStandings ==
    /\ calls < MaxReads
    /\ \E resp \in ReadAnswers(cache, ConstructorStandingsEndpoint, now) :
         Called("get_constructor_standings", <<>>,
                GetConstructorStandings(mgr, cache, now, resp))
    /\ calls' = calls + 1
    /\ UNCHANGED now

ReadLatestRaceResults ==
    /\ calls < MaxReads
    /\ Called("get_latest_race_results", <<>>, GetLatestRaceResults(cache))
    /\ calls' = calls + 1
    /\ UNCHANGED now

NextReads ==
    \/ Tick
    \/ ReadLiveRaceSchedule
    \/ ReadRaceSchedule
    \/ ReadNextRace
    \/ ReadDriverStandings
    \/ ReadConstructorStandings
    \/ ReadLatestRaceResults

SpecReads == Init /\ [][NextReads]_vars

(***************************************************************************)
(* mark_race_completed on a constructed manager                            *)
(***************************************************************************)
\* the round numbers given to mark_race_completed: those of a season, and
\* one that no race has
RaceRounds == 0..24

\* the first position in schedule whose race has round race_round, 0 when
\* there is none
FirstWithRound(schedule, race_round) ==
    IF \E i \in 1..Len(schedule) : schedule[i].round = race_round
    THEN CHOOSE i \in 1..Len(schedule) :
            /\ schedule[i].round = race_round
            /\ \A j \in 1..(i - 1) : schedule[j].round # race_round
    ELSE 0

\* the loop of mark_race_completed over m.race_schedule
MarkInSchedule(m, i) ==
    IF i = 0 THEN m
    ELSE [m EXCEPT !.race_schedule[i].status = "completed",
                   !.completed_races =
                       Append(@, [m.race_schedule[i] EXCEPT !.status = "completed"])]

\* mark_race_completed(race_round) on the manager m: reading
\* self.race_schedule raises AttributeError when m has no such attribute
MarkRaceCompleted(m, race_round) ==
    IF "race_schedule" \notin DOMAIN m
    THEN [ret |-> PyNone, exc |-> "AttributeError", mgr |-> m]
    ELSE [ret |-> PyNone, exc |-> "",
          mgr |-> MarkInSchedule(m, FirstWithRound(m.race_schedule, race_round))]

\* F1DataManager.mark_race_completed(race_round)
MarkRaceCompletedCall ==
    /\ \E race_round \in RaceRounds :
         /\ mgr' = MarkRaceCompleted(mgr, race_round).mgr
         /\ last' = Last("mark_race_completed", <<>>,
                         [ret |-> MarkRaceCompleted(mgr, race_round).ret,
                          exc |-> MarkRaceCompleted(mgr, race_round).exc,
                          gets |-> <<>>, arg |-> race_round])
    /\ UNCHANGED <<now, cache, gets, calls, threads>>

NextMark ==
    \/ Tick
    \/ MarkRaceCompletedCall

SpecMark == Init /\ [][NextMark]_vars

(***************************************************************************)
(* The three handlers that answer 404 when get_next_race gives them        *)
(* nothing: one inbound call each, on a fresh client                       *)
(***************************************************************************)
NextRaceRoutes == {"api_next_race", "api_race_winner_prediction", "api_race_insights"}

\* `not next_race` for the value get_next_race returned: None or an empty
\* dict
IsEmptyValue(v) == v = PyNone \/ DOMAIN v = {}

\* the status of the response once get_next_race has ended with outcome o:
\* 500 from the handler's except clause, 404 on an empty value, else 200
HttpStatus(o) ==
    IF o.exc # "" THEN 500
    ELSE IF IsEmptyValue(o.ret) THEN 404
    ELSE 200

\* a handler that stops at its 404 test or goes on with the race
NextRaceHandled(o) ==
    [o EXCEPT !.ret = [next_race |-> o.ret, http |-> HttpStatus(o)],
              !.exc = ""]

\* api_race_winner_prediction after get_next_race ended with outcome o:
\* predict_race_winner reads the driver standings unless the handler has
\* answered 404 or 500
WinnerPrediction(o, o2) ==
    IF HttpStatus(o) # 200 THEN NextRaceHandled(o)
    ELSE [o2 EXCEPT !.gets = o.gets \o o2.gets,
                    !.ret = [next_race |-> o.ret,
                             http |-> IF o2.exc # "" THEN 500 ELSE 200],
                    !.exc = ""]

\* GET /api/next-race and GET /api/race-insights: get_next_race, then the
\* 404 test
NextRaceRoute(op) ==
    /\ last.op = "__init__"
    /\ \E resp1 \in Answers(cache, YearEndpoint, now) :
         \E resp2 \in SecondAnswers(cache, now, now, resp1) :
            Called(op, <<>>,
                   NextRaceHandled(GetNextRace(mgr, cache, now, now, now,
                                               StillClock, resp1, resp2)))
    /\ UNCHANGED <<now, calls>>

ApiNextRace == NextRaceRoute("api_next_race")

ApiRaceInsights == NextRaceRoute("api_race_insights")

\* the rest of api_race_winner_prediction, get_next_race having ended
\* with outcome o
WinnerPredictionAfter(o) ==
    \E resp0 \in ReadAnswers(o.cache, DriverStandingsEndpoint, now) :
        Called("api_race_winner_prediction", <<>>,
               WinnerPrediction(o, GetDriverStandings(mgr, o.cache, now, resp0)))

\* GET /api/race-winner-prediction
ApiRaceWinnerPrediction ==
    /\ last.op = "__init__"
    /\ \E resp1 \in Answers(cache, YearEndpoint, now) :
         \E resp2 \in SecondAnswers(cache, now, now, resp1) :
            WinnerPredictionAfter(GetNextRace(mgr, cache, now, now, now,
                                              StillClock, resp1, resp2))
    /\ UNCHANGED <<now, calls>>

NextNotFound ==
    \/ Tick
    \/ ApiNextRace
    \/ ApiRaceInsights
    \/ ApiRaceWinnerPrediction

SpecNotFound == Init /\ [][NextNotFound]_vars

(***************************************************************************)
(* Properties                                                              *)
(***************************************************************************)
ScheduleOps == {"get_live_race_schedule", "get_race_schedule", "get_next_race"}

Sep(d) == ToOrdinal(<<2025, 9, d>>)

\* a before b, as 'YYYY-MM-DD' strings compare
DateLess(a, b) ==
    \/ a[1] < b[1]
    \/ a[1] = b[1] /\ a[2] < b[2]
    \/ a[1] = b[1] /\ a[2] = b[2] /\ a[3] < b[3]

\* the calendar date of the clock value t, among the days the clock reaches
DateOf(t) == CHOOSE d \in {<<2025, 9, x>> : x \in 20..30} : ToOrdinal(d) = Today(t)

\* C1: every race record get_live_race_schedule returns has date >= today,
\* the date read by its filter, also when it returns the fallback schedule.
C1_NoPastRace ==
    last.op = "get_live_race_schedule" =>
        \A i \in 1..Len(last.ret) : ToOrdinal(last.ret[i].date) >= last.today

\* C2: when get_live_race_schedule returns the fallback schedule, the status
\* of every entry is the one its date has on the day of the call (the day
\* the call starts or the day it ends): upcoming, live or completed.
C2_FallbackStatusRecomputed ==
    (last.op = "get_live_race_schedule" /\ last.fallback) =>
        \A i \in 1..Len(last.ret) :
            last.ret[i].status \in
                {DetermineRaceStatus(last.ret[i].date, last.t),
                 DetermineRaceStatus(last.ret[i].date, now)}

\* C3: for every valid race date and every clock value _determine_race_status
\* returns, without raising, 'upcoming' exactly when the date is after today
\* (the date of the clock value of the call),
\* 'live' exactly when it is today and 'completed' exactly when it is before.
C3_StatusIsFunctionOfDates ==
    (last.op = "_determine_race_status" /\ ValidDate(last.races[1])) =>
        LET race_date == last.races[1]
            today == DateOf(last.t)
        IN  /\ last.exc = ""
            /\ last.ret \in {"upcoming", "live", "completed"}
            /\ (last.ret = "upcoming") <=> DateLess(today, race_date)
            /\ (last.ret = "live") <=> (race_date = today)
            /\ (last.ret = "completed") <=> DateLess(race_date, today)

\* the case of C3: the status of a race of the day, 'live'
C3_Witness ==
    /\ last.op = "_determine_race_status"
    /\ last.races = << <<2025, 9, 22>> >>
    /\ DateOf(last.t) = <<2025, 9, 22>>
    /\ last.ret = "live"

WellFormedRace(race) ==
    /\ ValidDate(race.date)
    /\ IsDigit(race.round)
    /\ {"raceName", "Circuit"} \subseteq DOMAIN race

\* the records of a races list dated today or later
Kept(races, today) ==
    SelectSeq(races, LAMBDA r : ValidDate(r.date) /\ ToOrdinal(r.date) >= today)

\* does the list returned hold exactly the records kept, in their order
SameRaces(ret, kept) ==
    /\ Len(ret) = Len(kept)
    /\ \A j \in 1..Len(kept) :
         /\ ret[j].name = kept[j].raceName
         /\ ret[j].date = kept[j].date
         /\ ret[j].circuit = kept[j].Circuit.circuitName

RequestsWhenFailing(op) ==
    IF op \in ScheduleOps THEN 2
    ELSE IF op = "get_latest_race_results" THEN 0 ELSE 1

\* every request of the last call was sent and failed: _make_request
\* returned None each time
AllRequestsFailed ==
    /\ Len(last.gets) = RequestsWhenFailing(last.op)
    /\ \A i \in 1..Len(last.gets) : last.gets[i].outcome \in RequestExceptions

\* is the value a manager method returned neither None nor empty
NonEmptyResult ==
    IF last.op = "get_next_race"
    THEN {"name", "date", "status"} \subseteq DOMAIN last.ret
    ELSE IF last.op = "get_latest_race_results"
    THEN Len(last.ret.results) > 0
    ELSE Len(last.ret) > 0

\* C5: when every request of a call fails, each of the six manager methods
\* returns a non-empty, non-null result and does not raise.
C5_FallbackGuarantee ==
    (last.op \in ManagerOps /\ AllRequestsFailed) =>
        (last.exc = "" /\ NonEmptyResult)

\* the case of C5: get_next_race when both of its requests fail
C5_Witness ==
    /\ last.op = "get_next_race"
    /\ AllRequestsFailed
    /\ last.ret.name = GetFallbackSchedule[1].name

\* what a manager method returns from its except clause
HandlerValue(op) ==
    IF op = "get_driver_standings" THEN mgr.driver_standings
    ELSE IF op = "get_constructor_standings" THEN mgr.constructor_standings
    ELSE IF op = "get_latest_race_results" THEN GetFallbackRaceResults
    ELSE IF op = "get_next_race"
    THEN GetFallbackSchedule[1] @@ [location |-> Location(GetFallbackSchedule[1])]
    ELSE GetFallbackSchedule

\* C6: whatever the remote answers, the five read methods of the manager
\* propagate no exception; when one was raised inside, the fallback data is
\* what the method returns.
C6_NoExceptionPropagates ==
    last.op \in ManagerOps \ {"get_race_schedule"} =>
        /\ last.exc = ""
        /\ last.caught # "" => (last.fallback /\ last.ret = HandlerValue(last.op))

\* the case of C6: 'MRData' without the nested table, a KeyError inside
\* get_driver_standings
C6_Witness ==
    /\ last.op = "get_driver_standings"
    /\ last.caught = "KeyError"
    /\ Len(last.gets) = 1
    /\ last.gets[1].data.kind = "no_table"

SameSlot(g, h) == g.endpoint = h.endpoint /\ g.bucket = h.bucket

\* C7 as claimed: at most one GET is issued for an endpoint in a time
\* bucket.
C7_AtMostOneGet ==
    \A i, j \in 1..Len(gets) : (i < j) => ~SameSlot(gets[i], gets[j])

\* C7, amended: for an endpoint and a time bucket no GET follows a GET that
\* succeeded, so that at most one GET succeeds and every call after it is
\* served from the cache.
C7_NoGetAfterSuccess ==
    \A i, j \in 1..Len(gets) :
        (i < j /\ SameSlot(gets[i], gets[j])) => ~gets[i].ok

\* the case of C7: in one bucket a GET that failed, one that succeeded,
\* then a call served from the cache
C7_Witness ==
    /\ last.op = "_make_request"
    /\ last.hit
    /\ \E i, j \in 1..Len(gets) :
         /\ i < j
         /\ SameSlot(gets[i], gets[j])
         /\ ~gets[i].ok /\ gets[j].ok
         /\ gets[j].endpoint = last.endpoint
         /\ gets[j].bucket = TimeBucket(last.t)

\* C8: a _make_request call that finds its key in the cache returns the
\* stored payload, issues no GET and leaves the cache as it was.
C8_CacheHitFrame ==
    [][(/\ calls' = calls + 1
        /\ last'.op = "_make_request"
        /\ GetCacheKey(last'.endpoint, now) \in DOMAIN cache)
          => (/\ last'.ret = cache[GetCacheKey(last'.endpoint, now)]
              /\ last'.exc = ""
              /\ last'.gets = <<>>
              /\ gets' = gets
              /\ cache' = cache)]_vars

\* the case of C8: a call served from the cache
C8_Witness ==
    /\ last.op = "_make_request"
    /\ last.hit
    /\ last.gets = <<>>
    /\ GetCacheKey(last.endpoint, last.t) \in DOMAIN cache

\* C9: a call served from the cache returns a payload that a GET for its
\* endpoint fetched in the time bucket of the call.
C9_NoElapsedBucket ==
    (last.op = "_make_request" /\ last.hit) =>
        \E i \in 1..Len(gets) :
            /\ gets[i].endpoint = last.endpoint
            /\ gets[i].bucket = TimeBucket(last.t)
            /\ gets[i].ok
            /\ gets[i].data = last.ret

\* the case of C9: the cache holds a payload of an elapsed bucket for the
\* endpoint of the call, and the call fetches instead of serving it
C9_Witness ==
    /\ last.op = "_make_request"
    /\ ~last.hit
    /\ Len(last.gets) = 1
    /\ \E i \in 1..Len(gets) :
         /\ gets[i].endpoint = last.endpoint
         /\ gets[i].bucket < TimeBucket(last.t)
         /\ gets[i].ok
         /\ GetCacheKey(last.endpoint, gets[i].bucket * API_CACHE_TTL) \in DOMAIN cache

\* C10: _make_request raises nothing, whatever goes wrong while it fetches
\* or parses the response.
C10_NeverRaises ==
    last.op = "_make_request" => last.exc = ""


\* C11: one _make_request call issues at most one GET; when the GET fails
\* with a timeout, a connection failure or a non-2xx status, the call
\* returns None at once and stores nothing, with no second attempt.
C11_NoRetry ==
    [][(calls' = calls + 1 /\ last'.op = "_make_request") =>
          /\ Len(last'.gets) <= 1
          /\ Len(gets') <= Len(gets) + 1
          /\ gets' = gets \o [i \in 1..Len(last'.gets) |-> Logged(last'.gets[i])]
          /\ (last'.gets # <<>> /\ last'.gets[1].outcome \in RequestExceptions)
                => (last'.ret = PyNone /\ last'.exc = "" /\ cache' = cache)]_vars

\* the case of C11: a call whose only GET timed out and which returned None
C11_Witness ==
    /\ last.op = "_make_request"
    /\ Len(last.gets) = 1
    /\ last.gets[1].outcome = "timeout"
    /\ last.ret = PyNone
    /\ Len(gets) = 1


\* is the answer x of a _make_request call a failure, a payload of
\* unexpected shape or an empty race list
Unusable(x) ==
    \/ x.exc # ""
    \/ x.ret.kind # "table"
    \/ x.ret.Races = <<>>

\* the race list of the answer x, none when it has none
RacesOf(x) == IF Unusable(x) THEN <<>> ELSE x.ret.Races

\* C12: get_current_season_races asks for the current year first; when that
\* answer is a failure, of unexpected shape or an empty list, it asks
\* exactly once more, for 'current', and returns the race list of that
\* answer, the empty sequence when it is a failure or empty too; it does not
\* raise.
C12_FallsBackToCurrent ==
    last.op = "get_current_season_races" =>
        /\ Len(last.requests) >= 1
        /\ last.requests[1].endpoint = YearEndpoint
        /\ Unusable(last.requests[1]) =>
              /\ Len(last.requests) = 2
              /\ last.requests[2].endpoint = CurrentEndpoint
              /\ last.exc = ""
              /\ last.ret = RacesOf(last.requests[2])


C14_OneGetPerSlot ==
    \A i, j \in 1..Len(gets) :
        (i < j /\ SameSlot(gets[i], gets[j])) => ~(gets[i].ok /\ gets[j].ok)

\* C15: once a value is stored under a cache key, no step of any
\* _make_request call, concurrent ones included, stores under that key
\* again: the key stays and its value never changes.
C15_InsertIfAbsent ==
    [][\A key \in DOMAIN cache :
          key \in DOMAIN cache' /\ cache'[key] = cache[key]]_vars


\* the keys of a record of the schedule
ScheduleKeys ==
    {"round", "name", "circuit", "country", "date", "time", "race_time_ist",
     "status"}

\* C16 as claimed: get_next_race returns the first element of the schedule
\* of get_live_race_schedule as it is, the first fallback entry verbatim
\* when the fallback schedule is used.
C16_FirstVerbatim ==
    last.op = "get_next_race" =>
        /\ DOMAIN last.ret = ScheduleKeys
        /\ last.fallback => last.ret = GetFallbackSchedule[1]

\* C16, amended: get_next_race returns the first element of the schedule of
\* get_live_race_schedule with a 'location' field "<circuit>, <country>"
\* added, every other field being that of the first element; the schedule
\* is never empty, and when it is the fallback schedule the record is its
\* first entry with the location added.
C16_FirstWithLocation ==
    last.op = "get_next_race" =>
        /\ last.exc = ""
        /\ DOMAIN last.ret = ScheduleKeys \cup {"location"}
        /\ last.ret.location = <<last.ret.circuit, ", ", last.ret.country>>
        /\ IF last.fallback
           THEN \A f \in ScheduleKeys : last.ret[f] = GetFallbackSchedule[1][f]
           ELSE LET first == Kept(last.races, last.today)[1] IN
                /\ last.ret.round = IntOf(first.round)
                /\ last.ret.name = first.raceName
                /\ last.ret.date = first.date
                /\ last.ret.circuit = first.Circuit.circuitName
                /\ last.ret.country = first.Circuit.Location.country
                /\ (last.ret.status = "upcoming")
                      <=> ToOrdinal(first.date) > Today(last.status_at[1])

\* the case of C16: of two races kept, today's and the one two days later,
\* get_next_race returns today's, with its location
C16_Witness ==
    /\ last.op = "get_next_race"
    /\ ~last.fallback
    /\ last.races = <<RaceSep21, RaceSep23>>
    /\ last.today = Sep(21)
    /\ last.ret.date = <<2025, 9, 21>>
    /\ "location" \in DOMAIN last.ret


StandingsOps == {"get_driver_standings", "get_constructor_standings"}

\* can the remote standings record s be normalised: its three numbers are
\* integers and the keys the method subscripts are there
WellFormedStanding(op, s) ==
    /\ IsDigit(s.position) /\ IsDigit(s.points) /\ IsDigit(s.wins)
    /\ IF op = "get_driver_standings"
       THEN {"Driver", "Constructors"} \subseteq DOMAIN s
       ELSE "Constructor" \in DOMAIN s /\ "name" \in DOMAIN s.Constructor

\* the request of the last standings call failed, or the standings list it
\* got is missing or empty, or one of its records cannot be normalised
StandingsUnusable ==
    \/ \E i \in 1..Len(last.gets) : last.gets[i].outcome # "ok"
    \/ last.races = <<>>
    \/ \E i \in 1..Len(last.races) : ~WellFormedStanding(last.op, last.races[i])

\* the fallback standings as __init__ sets them
FallbackStandings(op) ==
    IF op = "get_driver_standings"
    THEN << [position |-> 1, driver |-> <<"Max", " ", "Verstappen">>,
             team |-> <<"Red", " ", "Bull", " ", "Racing">>, points |-> 408,
             wins |-> 8, podiums |-> 15],
            [position |-> 2, driver |-> <<"Lando", " ", "Norris">>,
             team |-> <<"McLaren">>, points |-> 371, wins |-> 4, podiums |-> 12],
            [position |-> 3, driver |-> <<"Charles", " ", "Leclerc">>,
             team |-> <<"Ferrari">>, points |-> 356, wins |-> 3, podiums |-> 11] >>
    ELSE << [position |-> 1, team |-> <<"Red", " ", "Bull", " ", "Racing">>,
             points |-> 589, wins |-> 8],
            [position |-> 2, team |-> <<"McLaren">>, points |-> 544, wins |-> 4],
            [position |-> 3, team |-> <<"Ferrari">>, points |-> 537, wins |-> 5] >>

\* C17: get_driver_standings and get_constructor_standings return their
\* fallback list, whole and as __init__ set it, whenever the request fails,
\* the standings list is missing or empty or one record cannot be
\* normalised; otherwise they return one record per remote record, so a
\* partly normalised list is never returned.
C17_FallbackStandings ==
    last.op \in StandingsOps =>
        /\ last.exc = ""
        /\ IF StandingsUnusable
           THEN last.ret = FallbackStandings(last.op)
           ELSE Len(last.ret) = Len(last.races)

\* the case of C17: the second of two driver records has half points, and
\* the fallback list is returned, not the first record alone
C17_Witness ==
    /\ last.op = "get_driver_standings"
    /\ last.races = <<DriverP1, DriverHalfPoints>>
    /\ last.caught = "ValueError"
    /\ Len(last.ret) = 3
    /\ last.ret[1].driver = <<"Max", " ", "Verstappen">>


\* s without the spaces before its first and after its last token that is
\* not a space
Trimmed(s) ==
    LET idx == {i \in 1..Len(s) : s[i] # " "} IN
    IF idx = {} THEN <<>>
    ELSE SubSeq(s, CHOOSE i \in idx : \A j \in idx : i <= j,
                   CHOOSE i \in idx : \A j \in idx : i >= j)

\* C18: for every remote record of a live driver standings list the name
\* returned is givenName, a space and familyName, trimmed at both ends, and
\* the team is the name of the first constructor listed ('Unknown' when
\* none is listed).
C18_NameAndTeam ==
    (last.op = "get_driver_standings" /\ ~last.fallback) =>
        /\ Len(last.ret) = Len(last.races)
        /\ \A i \in 1..Len(last.races) :
             LET s == last.races[i] IN
             /\ last.ret[i].driver =
                   Trimmed(s.Driver.givenName \o <<" ">> \o s.Driver.familyName)
             /\ last.ret[i].team =
                   IF Len(s.Constructors) > 0 THEN s.Constructors[1].name
                   ELSE <<"Unknown">>

\* the case of C18: an empty givenName with familyName 'Hamilton' gives
\* 'Hamilton', and of two constructors listed the first is the team
C18_Witness ==
    /\ last.op = "get_driver_standings"
    /\ ~last.fallback
    /\ last.races = <<DriverP2, DriverP1>>
    /\ last.ret[1].driver = <<"Hamilton">>
    /\ last.ret[2].driver = <<"Lewis", " ", "Hamilton">>
    /\ last.ret[2].team = <<"Ferrari">>


\* C19: every list get_driver_standings or get_constructor_standings
\* returns, whatever the remote payload, has positions that are integers
\* >= 1, pairwise distinct and in ascending order.
C19_PositionsAscending ==
    last.op \in StandingsOps =>
        /\ \A i \in 1..Len(last.ret) : last.ret[i].position >= 1
        /\ \A i, j \in 1..Len(last.ret) :
             i < j => last.ret[i].position < last.ret[j].position


\* C20: get_latest_race_results returns the static result set (the Italian
\* Grand Prix at Monza, six rows), whatever the cache holds and the clock
\* shows, without raising, issuing a GET or changing the cache.
C20_StaticResults ==
    [][last'.op = "get_latest_race_results" =>
          /\ last'.exc = ""
          /\ last'.ret.race_name = "Italian Grand Prix"
          /\ last'.ret.circuit = "Monza"
          /\ last'.ret.date = <<2025, 9, 1>>
          /\ Len(last'.ret.results) = 6
          /\ \A i \in 1..6 : last'.ret.results[i].position = i
          /\ last'.ret.results[1].driver = "Max Verstappen"
          /\ last'.ret.results[6].driver = "Oscar Piastri"
          /\ last'.gets = <<>>
          /\ gets' = gets
          /\ cache' = cache]_vars

\* the case of C20: the results read on a client whose cache holds a
\* payload
C20_Witness ==
    /\ last.op = "get_latest_race_results"
    /\ DOMAIN cache # {}
    /\ Len(gets) = 1
    /\ last.ret.race_name = "Italian Grand Prix"


\* C21 as stated: a time of day 'HH:MM:SSZ' comes back as the 'HH:MM' five
\* hours and thirty minutes later, modulo 24 hours.
C21_PlusFiveThirty ==
    (last.op = "_convert_to_ist" /\ "fmt" \in DOMAIN last.arg
        /\ last.arg.fmt = "HH:MM:SSZ")
    => last.ret = PlusIst(last.arg.h, last.arg.m)

\* the strings and values the parse of _convert_to_ist rejects
Unparseable(utc_time) ==
    \/ utc_time = PyNone
    \/ /\ "fmt" \in DOMAIN utc_time
       /\ utc_time.fmt \in {"garbage", "empty", "HH:MM:SS", "HH:MM:SSZ"}

\* C22: on an input that does not parse, _convert_to_ist returns "17:00"
\* and raises nothing.
C22_DefaultOnUnparseable ==
    (last.op = "_convert_to_ist" /\ Unparseable(last.arg))
    => (last.ret = HHMM(17, 0) /\ last.exc = "")

C22_Witness ==
    /\ last.op = "_convert_to_ist"
    /\ last.arg = TimeStr("garbage", 0, 0)
    /\ last.ret = HHMM(17, 0)
    /\ last.caught = "ValueError"


FetchedKeys(log, n) ==
    {log[i].endpoint \o <<"_">> \o Digits(log[i].bucket) :
        i \in {j \in (n + 1)..Len(log) : log[j].ok}}

\* C24: no step removes or replaces an entry of the client cache; the keys
\* a step adds are those of the endpoint and bucket of each GET that
\* succeeded in it, so the entries of elapsed buckets stay.
C24_CacheOnlyGrows ==
    [][/\ \A k \in DOMAIN cache : k \in DOMAIN cache' /\ cache'[k] = cache[k]
       /\ DOMAIN cache' = DOMAIN cache \cup FetchedKeys(gets', Len(gets))]_vars

\* the case of C24: the cache holds an entry of an elapsed bucket next to
\* the one the last call stored
C24_Witness ==
    /\ last.op = "_make_request"
    /\ Len(last.gets) = 1
    /\ GetCacheKey(last.endpoint, last.t) \in DOMAIN cache
    /\ \E i \in 1..Len(gets) :
         /\ gets[i].ok
         /\ gets[i].bucket < TimeBucket(now)
         /\ gets[i].endpoint \o <<"_">> \o Digits(gets[i].bucket) \in DOMAIN cache


\* the races of the static schedule with round r, marked completed
MarkedRaces(r) ==
    IF FirstWithRound(GetFallbackSchedule, r) = 0 THEN <<>>
    ELSE <<[GetFallbackSchedule[FirstWithRound(GetFallbackSchedule, r)]
               EXCEPT !.status = "completed"]>>

\* C25 as stated: mark_race_completed(r) on a constructed manager raises
\* nothing and leaves in completed_races the schedule race of round r,
\* marked completed, or nothing when no race has that round.
C25_MarksCompleted ==
    last.op = "mark_race_completed" =>
        /\ last.exc = ""
        /\ mgr.completed_races = MarkedRaces(last.arg)


\* C26 as stated: every record get_live_race_schedule returns from the
\* remote races (not the fallback) has status 'upcoming' or 'live', also
\* when the date changes between the filter and the status computation.
C26_NeverCompleted ==
    (last.op = "get_live_race_schedule" /\ ~last.fallback) =>
        \A i \in 1..Len(last.ret) : last.ret[i].status \in {"upcoming", "live"}


\* C27: whatever the remote answers, get_next_race gives the handlers
\* api_next_race, api_race_winner_prediction and api_race_insights a value
\* that is neither None nor empty, so none of them answers 404.
C27_NeverNotFound ==
    last.op \in NextRaceRoutes =>
        /\ ~IsEmptyValue(last.ret.next_race)
        /\ last.ret.http # 404

\* the case of C27: both requests for the season's races fail and the
\* handler still has a race to answer with
C27_Witness ==
    /\ last.op = "api_race_winner_prediction"
    /\ Len(last.gets) >= 2
    /\ last.gets[1].outcome = "timeout"
    /\ last.gets[2].outcome = "http_error"
    /\ last.ret.http = 200
    /\ last.ret.next_race.round = 17


\* has the log only GETs that failed for the endpoint at the bucket of
\* clock t, and at least one
OnlyFailed(log, endpoint, t) ==
    /\ \E i \in 1..Len(log) :
         log[i].endpoint = endpoint /\ log[i].bucket = TimeBucket(t)
    /\ \A i \in 1..Len(log) :
         (log[i].endpoint = endpoint /\ log[i].bucket = TimeBucket(t))
            => ~log[i].ok

\* C28: a _make_request call whose GET fails leaves the cache as it was, and
\* a call for an endpoint whose GETs of the current bucket have all failed
\* issues a GET again.
C28_FailureNotCached ==
    [][(calls' = calls + 1 /\ last'.op = "_make_request") =>
          /\ (last'.gets # <<>> /\ last'.gets[1].outcome # "ok")
                => cache' = cache
          /\ OnlyFailed(gets, last'.endpoint, now)
                => (Len(last'.gets) = 1 /\ ~last'.hit)]_vars

\* the case of C28: a second GET for an endpoint in the bucket in which its
\* first one failed
C28_Witness ==
    /\ last.op = "_make_request"
    /\ Len(last.gets) = 1
    /\ Len(gets) >= 2
    /\ \E i \in 1..(Len(gets) - 1) :
         /\ SameSlot(gets[i], gets[Len(gets)])
         /\ ~gets[i].ok
         /\ gets[i].endpoint = last.endpoint
         /\ gets[i].bucket = TimeBucket(last.t)
    /\ OnlyFailed(SubSeq(gets, 1, Len(gets) - 1), last.endpoint, last.t)

====
